---- MODULE Spec2Model ----
(***************************************************************************)
(* Model of sage_libgap's workspace staleness check                        *)
(* (src/src/sage_libgap/saved_workspace.py: timestamp, workspace) and of   *)
(* the engine locator it depends on (src/src/sage_libgap/env.py: find_gap, *)
(* GAP_ROOT_PATHS; src/setup.py: find_gap).                                *)
(*                                                                         *)
(* Strings that the code inspects character by character (the search path, *)
(* directory entry names) are sequences of one-character strings.  Python's*)
(* None is the empty tuple <<>> and a present value v is <<v>>.            *)
(* Modification times are the integers 0..MaxTime; float('inf') is Inf.    *)
(***************************************************************************)
EXTENDS Integers, Sequences, FiniteSets, TLC

\* ------------------------------------------------------------------ bounds
\* Largest value of the filesystem clock.
MaxTime == 2
\* Longest GAP_ROOT_PATHS string enumerated by SpecPath.
MaxLen == 3

\* ------------------------------------------------------------- value sets
Time == 0..MaxTime

\* float('inf'): larger than every modification time a file can carry.
Inf == MaxTime + 1

\* Characters of search-path strings.
PathChars == {";", "a", "b"}

\* Every string over PathChars of length lo..hi.
Strings(lo, hi) == UNION {[1..n -> PathChars] : n \in lo..hi}

\* Directories that can hold engine packages: <d>/pkg for d in Roots.
Roots == {<<"a">>, <<"b">>}

\* The roots whose pkg directory is written to while the program runs.
LiveRoots == {<<"a">>}

\* Entry names of the directory holding saved_workspace.py; the second
\* begins with a dot.
LibgapNames == {<<"e">>, <<".", "h">>}

\* Entry names of a <d>/pkg directory.
PkgNames == {<<"s">>}

\* The name argument of workspace().
WsNames == {"workspace"}

None == <<>>

Some(v) == <<v>>

\* Python truthiness of an optional string: None and "" are falsy.
Truthy(o) == o # None /\ o[1] # <<>>

\* max() of a non-empty set of numbers.
Max(S) == CHOOSE m \in S : \A x \in S : x <= m

\* A set as a list, in a fixed order (glob returns its matches as a list).
RECURSIVE SetToSeq(_)
SetToSeq(S) ==
    IF S = {} THEN <<>>
    ELSE LET x == CHOOSE y \in S : TRUE IN <<x>> \o SetToSeq(S \ {x})

\* The elements of a list.
Range(s) == {s[i] : i \in 1..Len(s)}

VARIABLES
    \* --- the filesystem and its clock
    now,            \* current filesystem time
    libgap_dir,     \* entries of dirname(__file__): name -> mtime
    pkg_dir,        \* entries of the <d>/pkg directories: <<d, name>> -> mtime
    ws_dir,         \* saved workspace files: path -> mtime
    \* --- sage_libgap.env after import
    GAP_ROOT_PATHS, \* the module constant, None before the import
    \* --- the call in progress of saved_workspace.timestamp / workspace
    pc,             \* "idle" | "called" | "probed" | "listed"
    call,           \* [fn, name]: the entry point being executed
    workspace_mtime,\* local of workspace()
    files,          \* local of timestamp(): libgap_files + gap_packages
    lookups,        \* the d of every glob(<d>/pkg/*) the call in progress issued
    ret,            \* outcome of the last finished call
    \* --- history of the filesystem operations
    changed,        \* changes of relevant files since the last save
    onlyTouch,      \* the last timestamp() ran undisturbed; only own touches since
    quiet,          \* no filesystem operation since the listing of the call in progress
    \* --- the process environment read by env.py and setup.py
    environ,        \* [GAP_ROOT_PATHS, GAP_ROOT]: optional strings
    gap_exec,       \* which("gap"): optional [dir, file]
    resources,      \* directory -> the sub-resources that exist under it
    debug,          \* __debug__: FALSE when the interpreter runs with -O
    pcEnv,          \* "start" | "imported" | "failed"
    envRet,         \* outcome of importing sage_libgap.env
    fgRet           \* outcome of the last direct find_gap() call

fsVars == <<now, libgap_dir, pkg_dir, ws_dir>>
callVars == <<pc, call, workspace_mtime, files, lookups, ret>>
histVars == <<changed, onlyTouch, quiet>>
envVars == <<environ, gap_exec, resources, debug, pcEnv, envRet, fgRet>>
vars == <<fsVars, GAP_ROOT_PATHS, callVars, histVars, envVars>>

\* ------------------------------------------------------- path conventions
\* gap_workspace_file(kind, name): the canonical location of a saved
\* workspace; an opaque path for this module.
gap_workspace_file(kind, name) == <<kind, name>>

\* os.path.join(libgap_dir, n) and os.path.join(d, 'pkg', n) as path values.
LibgapPath(n) == [dir |-> "libgap", root |-> <<>>, name |-> n]

PkgPath(d, n) == [dir |-> "pkg", root |-> d, name |-> n]

\* A getmtime that answers the age of the file instead of its stamp.
getmtime_age(p) ==
    IF p.dir = "libgap" THEN now - libgap_dir[p.name] ELSE now - pkg_dir[<<p.root, p.name>>]

\* os.path.exists / os.path.getmtime on a candidate path.
Exists(p) ==
    IF p.dir = "libgap" THEN p.name \in DOMAIN libgap_dir
    ELSE <<p.root, p.name>> \in DOMAIN pkg_dir

getmtime(p) ==
    IF p.dir = "libgap" THEN libgap_dir[p.name] ELSE pkg_dir[<<p.root, p.name>>]

\* The pattern '*' of glob does not match a name that begins with a dot.
MatchesStar(n) == n[1] # "."

\* glob.glob(os.path.join(libgap_dir, '*'))
GlobLibgap == SetToSeq({LibgapPath(n) : n \in {m \in DOMAIN libgap_dir : MatchesStar(m)}})

\* glob.glob(os.path.join(d, 'pkg', '*'))
GlobPkg(d) ==
    SetToSeq({PkgPath(d, n) : n \in {m \in PkgNames : <<d, m>> \in DOMAIN pkg_dir /\ MatchesStar(m)}})

\* s.split(sep) for a one-character separator.
RECURSIVE split(_, _)
split(s, sep) ==
    IF \A i \in 1..Len(s) : s[i] # sep THEN <<s>>
    ELSE LET k == CHOOSE i \in 1..Len(s) : s[i] = sep /\ \A j \in 1..(i - 1) : s[j] # sep
         IN <<SubSeq(s, 1, k - 1)>> \o split(SubSeq(s, k + 1, Len(s)), sep)

\* The loop without its "if d:" guard.
SearchRootsAll(segs) == segs

\* The d for which the loop of timestamp() reaches the glob call.
SearchRoots(segs) == SelectSeq(segs, LAMBDA d : d # <<>>)

\* A timestamp() that forgets the package directories.
GapPackagesNone(ds) == <<>>

\* gap_packages after the loop over the given roots.
RECURSIVE GapPackages(_)
GapPackages(ds) ==
    IF ds = <<>> THEN <<>> ELSE GlobPkg(Head(ds)) \o GapPackages(Tail(ds))

\* The comparison with > in place of >=.
UpToDateStrict(wm, ts) == wm > ts

\* The comparison of workspace(): workspace_mtime >= timestamp().
UpToDate(wm, ts) == wm >= ts

\* The value timestamp() returns for an empty files list.
EmptyStamp == Inf

\* ----------------------------------------------------------- outcomes
\* No call in progress: the locals of a finished call are gone.
NoCall == [fn |-> "none", name |-> ""]

NoRet == [fn |-> "none", kind |-> "none"]

Returned(fn, v, diag) == [fn |-> fn, kind |-> "return", value |-> v, diag |-> diag]

Raised(fn, exc, diag) == [fn |-> fn, kind |-> "raise", exc |-> exc, diag |-> diag]

\* ------------------------------------------------- history bookkeeping
\* A removal of a candidate file ends what the history can say until the
\* next save.
AfterRemoval == "void"

\* The history after stamping a relevant entry (visible or not) with `now`.
AfterChange(visible) ==
    IF changed = "void" THEN "void"
    ELSE IF visible /\ \E p \in DOMAIN ws_dir : now > ws_dir[p] THEN "newer"
    ELSE IF changed = "newer" THEN "newer"
    ELSE "unseen"

\* Whether <d>/pkg is searched by timestamp().
Searched(d) == GAP_ROOT_PATHS # None /\ d \in Range(split(GAP_ROOT_PATHS[1], ";"))

\* ------------------------------------------------ filesystem operations
\* The clock advances.
Tick ==
    /\ now < MaxTime
    /\ now' = now + 1
    /\ UNCHANGED <<libgap_dir, pkg_dir, ws_dir, GAP_ROOT_PATHS, callVars, histVars, envVars>>

\* A file is created in the directory of saved_workspace.py.
AddLibgap(n) ==
    /\ n \notin DOMAIN libgap_dir
    /\ libgap_dir' = [m \in DOMAIN libgap_dir \cup {n} |-> IF m = n THEN now ELSE libgap_dir[m]]
    /\ changed' = AfterChange(MatchesStar(n))
    /\ onlyTouch' = FALSE
    /\ quiet' = FALSE
    /\ UNCHANGED <<now, pkg_dir, ws_dir, GAP_ROOT_PATHS, callVars, envVars>>

\* An existing file of that directory is modified (touched).
TouchLibgap(n) ==
    /\ n \in DOMAIN libgap_dir
    /\ libgap_dir' = [libgap_dir EXCEPT ![n] = now]
    /\ changed' = AfterChange(MatchesStar(n))
    /\ quiet' = FALSE
    /\ UNCHANGED <<now, pkg_dir, ws_dir, GAP_ROOT_PATHS, callVars, onlyTouch, envVars>>

\* A file of that directory is removed.
RemoveLibgap(n) ==
    /\ n \in DOMAIN libgap_dir
    /\ libgap_dir' = [m \in DOMAIN libgap_dir \ {n} |-> libgap_dir[m]]
    /\ changed' = AfterRemoval
    /\ onlyTouch' = FALSE
    /\ quiet' = FALSE
    /\ UNCHANGED <<now, pkg_dir, ws_dir, GAP_ROOT_PATHS, callVars, envVars>>

\* A package directory is created under <d>/pkg.
AddPkg(d, n) ==
    /\ <<d, n>> \notin DOMAIN pkg_dir
    /\ pkg_dir' = [e \in DOMAIN pkg_dir \cup {<<d, n>>} |-> IF e = <<d, n>> THEN now ELSE pkg_dir[e]]
    /\ changed' = IF Searched(d) THEN AfterChange(MatchesStar(n)) ELSE changed
    /\ onlyTouch' = FALSE
    /\ quiet' = FALSE
    /\ UNCHANGED <<now, libgap_dir, ws_dir, GAP_ROOT_PATHS, callVars, envVars>>

\* A package directory is modified.
TouchPkg(d, n) ==
    /\ <<d, n>> \in DOMAIN pkg_dir
    /\ pkg_dir' = [pkg_dir EXCEPT ![<<d, n>>] = now]
    /\ changed' = IF Searched(d) THEN AfterChange(MatchesStar(n)) ELSE changed
    /\ onlyTouch' = FALSE
    /\ quiet' = FALSE
    /\ UNCHANGED <<now, libgap_dir, ws_dir, GAP_ROOT_PATHS, callVars, envVars>>

\* A package directory is removed.
RemovePkg(d, n) ==
    /\ <<d, n>> \in DOMAIN pkg_dir
    /\ pkg_dir' = [e \in DOMAIN pkg_dir \ {<<d, n>>} |-> pkg_dir[e]]
    /\ changed' = IF Searched(d) THEN AfterRemoval ELSE changed
    /\ onlyTouch' = FALSE
    /\ quiet' = FALSE
    /\ UNCHANGED <<now, libgap_dir, ws_dir, GAP_ROOT_PATHS, callVars, envVars>>

\* The engine saves its workspace at the canonical path.
SaveWorkspace(name) ==
    /\ ws_dir' = [p \in DOMAIN ws_dir \cup {gap_workspace_file("libgap", name)} |->
                    IF p = gap_workspace_file("libgap", name) THEN now ELSE ws_dir[p]]
    /\ changed' = "none"
    /\ onlyTouch' = FALSE
    /\ quiet' = FALSE
    /\ UNCHANGED <<now, libgap_dir, pkg_dir, GAP_ROOT_PATHS, callVars, envVars>>

\* The saved workspace is removed.
RemoveWorkspace(name) ==
    /\ gap_workspace_file("libgap", name) \in DOMAIN ws_dir
    /\ ws_dir' = [p \in DOMAIN ws_dir \ {gap_workspace_file("libgap", name)} |-> ws_dir[p]]
    /\ onlyTouch' = FALSE
    /\ quiet' = FALSE
    /\ UNCHANGED <<now, libgap_dir, pkg_dir, GAP_ROOT_PATHS, callVars, changed, envVars>>

\* ------------------------------------------------ saved_workspace.py
\* workspace(name), line 100: the path resolver is asked for the location.
WorkspaceCall(name) ==
    /\ pc = "idle"
    /\ GAP_ROOT_PATHS # None
    /\ call' = [fn |-> "workspace", name |-> name]
    /\ pc' = "called"
    /\ UNCHANGED <<fsVars, GAP_ROOT_PATHS, workspace_mtime, files, lookups, ret, histVars, envVars>>

\* A workspace() that lets the OSError of the missing file through.
ProbeMissingRaises(workspace) == Raised("workspace", "FileNotFoundError", FALSE)

\* What the try block of workspace(), lines 101-105, does for the path:
\* the OSError of a missing file ends the call with (path, False).
ProbeMissing(workspace) == Returned("workspace", <<workspace, FALSE>>, FALSE)

\* workspace(name), lines 101-105: probe the workspace file.
WorkspaceProbe ==
    /\ pc = "called"
    /\ LET workspace == gap_workspace_file("libgap", call.name) IN
       IF workspace \notin DOMAIN ws_dir
       THEN /\ ret' = ProbeMissing(workspace)
            /\ pc' = "idle"
            /\ call' = NoCall
            /\ UNCHANGED workspace_mtime
       ELSE /\ workspace_mtime' = ws_dir[workspace]
            /\ pc' = "probed"
            /\ UNCHANGED <<call, ret>>
    /\ UNCHANGED <<fsVars, GAP_ROOT_PATHS, files, lookups, histVars, envVars>>

\* timestamp(), lines 58-67: the two globs and the loop over the search path.
\* Entered from a direct call (pc = "idle") or from workspace() line 106.
TimestampList ==
    /\ pc \in {"idle", "probed"}
    /\ GAP_ROOT_PATHS # None
    /\ LET libgap_files == GlobLibgap
           ds == SearchRoots(split(GAP_ROOT_PATHS[1], ";"))
           gap_packages == GapPackages(ds)
       IN /\ files' = libgap_files \o gap_packages
          /\ lookups' = ds
    /\ call' = IF pc = "idle" THEN [fn |-> "timestamp", name |-> ""] ELSE call
    /\ pc' = "listed"
    /\ quiet' = TRUE
    /\ UNCHANGED <<fsVars, GAP_ROOT_PATHS, workspace_mtime, ret, changed, onlyTouch, envVars>>

\* A timestamp() that answers 0 for an empty files list.
TimestampResultZero(fs) ==
    IF Len(fs) = 0 THEN [kind |-> "return", value |-> 0, diag |-> TRUE]
    ELSE IF \E i \in 1..Len(fs) : ~Exists(fs[i])
         THEN [kind |-> "raise", exc |-> "FileNotFoundError", diag |-> FALSE]
         ELSE [kind |-> "return", value |-> Max({getmtime(fs[i]) : i \in 1..Len(fs)}), diag |-> FALSE]

\* What timestamp() lines 68-71 produce for the listed files: a value with
\* the diagnostic flag, or the OSError of a getmtime on a vanished file.
TimestampResult(fs) ==
    IF Len(fs) = 0 THEN [kind |-> "return", value |-> EmptyStamp, diag |-> TRUE]
    ELSE IF \E i \in 1..Len(fs) : ~Exists(fs[i])
         THEN [kind |-> "raise", exc |-> "FileNotFoundError", diag |-> FALSE]
         ELSE [kind |-> "return", value |-> Max({getmtime(fs[i]) : i \in 1..Len(fs)}), diag |-> FALSE]

\* timestamp() lines 68-71, and for workspace() the comparison of line 106.
\* An exception of timestamp() is not caught by workspace(): the try block
\* of lines 101-105 covers only the probe of the workspace file.
TimestampProbe ==
    /\ pc = "listed"
    /\ LET r == TimestampResult(files) IN
       /\ ret' = IF r.kind = "raise" THEN Raised(call.fn, r.exc, r.diag)
                 ELSE IF call.fn = "timestamp" THEN Returned("timestamp", r.value, r.diag)
                 ELSE Returned("workspace",
                               <<gap_workspace_file("libgap", call.name),
                                 UpToDate(workspace_mtime, r.value)>>, r.diag)
       /\ onlyTouch' = IF call.fn = "timestamp" /\ r.kind = "return" THEN quiet ELSE onlyTouch
    /\ pc' = "idle"
    /\ call' = NoCall
    /\ workspace_mtime' = 0
    /\ files' = <<>>
    /\ lookups' = <<>>
    /\ quiet' = FALSE
    /\ UNCHANGED <<fsVars, GAP_ROOT_PATHS, changed, envVars>>

\* ------------------------------------------------- env.py and setup.py
\* The sub-resources the two variants of find_gap look for under the root.
Resources == {"lib/init.g", "pkg", ".libs", "build/gap"}

\* pathlib.Path(s): trailing slashes are dropped and "" is ".".
RECURSIVE Path(_)
Path(s) ==
    IF s = <<>> THEN <<".">>
    ELSE IF Len(s) > 1 /\ s[Len(s)] = "/" THEN Path(SubSeq(s, 1, Len(s) - 1))
    ELSE s

\* pathlib.Path(gap_exec).parent
Parent(exe) == Path(exe.dir)

\* Path.as_posix(): a Path value is kept with forward slashes.
as_posix(root) == root

\* gap_root.joinpath(...).exists()
HasResource(root, r) == r \in resources[root]

EnvReturned(fn, v, n) == [fn |-> fn, kind |-> "return", value |-> v, find_gap_calls |-> n]

EnvRaised(fn, type, msg, n) ==
    [fn |-> fn, kind |-> "raise", type |-> type, msg |-> msg, find_gap_calls |-> n]

\* A message that says only that GAP was not found.
NotFoundMsgGeneric == [text |-> "GAP not found", remedies |-> {}]

\* The message of the ValueError of find_gap: the two remedies it names.
NotFoundMsg == [text |-> "GAP not found", remedies |-> {"PATH", "GAP_ROOT"}]

\* The message of a failed assert of find_gap: what is missing and where
\* it was expected.
MissingMsg(r, root, sub) == [text |-> "not found", missing |-> r, expected |-> <<root, sub>>]

\* An assert statement: it is compiled away when __debug__ is false.
AssertFails(cond) == debug /\ ~cond

\* find_gap(), env.py lines 46-55, and setup.py lines 45-54: the two
\* asserts on the candidate root, then the return.
CheckRoot(fn, gap_root, first, second) ==
    IF AssertFails(HasResource(gap_root, first.res))
    THEN EnvRaised(fn, "AssertionError", MissingMsg(first.res, gap_root, first.sub), 1)
    ELSE IF AssertFails(HasResource(gap_root, second.res))
    THEN EnvRaised(fn, "AssertionError", MissingMsg(second.res, gap_root, second.sub), 1)
    ELSE EnvReturned(fn, gap_root, 1)

\* find_gap(), env.py lines 33-45 and setup.py lines 32-44: the candidate
\* root from which("gap"), else from GAP_ROOT, else the ValueError.
Locate(fn, first, second) ==
    IF gap_exec = None
    THEN IF environ.GAP_ROOT = None
         THEN EnvRaised(fn, "ValueError", NotFoundMsg, 1)
         ELSE CheckRoot(fn, Path(environ.GAP_ROOT[1]), first, second)
    ELSE CheckRoot(fn, Parent(gap_exec[1]), first, second)

\* find_gap() of env.py.
find_gap ==
    Locate("find_gap", [res |-> "lib/init.g", sub |-> "lib"], [res |-> "pkg", sub |-> "pkg"])

\* find_gap() of setup.py.
setup_find_gap ==
    Locate("setup.find_gap", [res |-> ".libs", sub |-> ".libs"],
           [res |-> "build/gap", sub |-> "build/gap"])

\* env.py line 63: environ.get("GAP_ROOT_PATHS", None) or find_gap().as_posix()
ImportResult ==
    IF Truthy(environ.GAP_ROOT_PATHS)
    THEN EnvReturned("import", environ.GAP_ROOT_PATHS[1], 0)
    ELSE LET r == find_gap IN
         IF r.kind = "raise" THEN [r EXCEPT !.fn = "import"]
         ELSE EnvReturned("import", as_posix(r.value), 1)

\* import sage_libgap.env
ImportEnv ==
    /\ pcEnv = "start"
    /\ envRet' = ImportResult
    /\ pcEnv' = IF envRet'.kind = "return" THEN "imported" ELSE "failed"
    /\ GAP_ROOT_PATHS' = IF envRet'.kind = "return" THEN Some(envRet'.value) ELSE None
    /\ UNCHANGED <<fsVars, callVars, histVars, environ, gap_exec, resources, debug, fgRet>>

\* A caller of sage_libgap.env.find_gap() after the import.
CallFindGap ==
    /\ pcEnv = "imported"
    /\ fgRet' = find_gap
    /\ UNCHANGED <<fsVars, GAP_ROOT_PATHS, callVars, histVars, environ, gap_exec, resources,
                   debug, pcEnv, envRet>>

\* setup.py line 75: gap_root = find_gap()
SetupFindGap ==
    /\ fgRet' = setup_find_gap
    /\ UNCHANGED <<fsVars, GAP_ROOT_PATHS, callVars, histVars, environ, gap_exec, resources,
                   debug, pcEnv, envRet>>

\* ------------------------------------------------------- specification
\* The search path the main specification starts from: ";a;;b".
PathSamples == {<<";", "a", ";", ";", "b">>}

\* sage_libgap.env has been imported with GAP_ROOT_PATHS set in the
\* environment.
InitEnvDone(paths) ==
    /\ environ \in {[GAP_ROOT_PATHS |-> Some(s), GAP_ROOT |-> None] : s \in paths}
    /\ gap_exec = None
    /\ resources = [d \in Roots |-> {}]
    /\ debug = TRUE
    /\ pcEnv = "imported"
    /\ GAP_ROOT_PATHS = environ.GAP_ROOT_PATHS
    /\ envRet = [fn |-> "import", kind |-> "return", value |-> GAP_ROOT_PATHS[1], find_gap_calls |-> 0]
    /\ fgRet = NoRet

\* No call of saved_workspace is in progress and none has finished.
InitCall ==
    /\ pc = "idle"
    /\ call = NoCall
    /\ workspace_mtime = 0
    /\ files = <<>>
    /\ lookups = <<>>
    /\ ret = NoRet
    /\ changed = "none"
    /\ onlyTouch = FALSE
    /\ quiet = FALSE

Init ==
    /\ now = 0
    /\ libgap_dir \in {[n \in S |-> 0] : S \in SUBSET LibgapNames}
    /\ pkg_dir \in {[e \in S |-> 0] : S \in SUBSET (LiveRoots \X PkgNames)}
    /\ ws_dir = [p \in {} |-> 0]
    /\ InitEnvDone(PathSamples)
    /\ InitCall

Next ==
    \/ Tick
    \/ \E n \in LibgapNames : AddLibgap(n)
    \/ \E n \in LibgapNames : TouchLibgap(n)
    \/ \E n \in LibgapNames : RemoveLibgap(n)
    \/ \E d \in LiveRoots, n \in PkgNames : AddPkg(d, n)
    \/ \E d \in LiveRoots, n \in PkgNames : TouchPkg(d, n)
    \/ \E d \in LiveRoots, n \in PkgNames : RemovePkg(d, n)
    \/ \E name \in WsNames : SaveWorkspace(name)
    \/ \E name \in WsNames : RemoveWorkspace(name)
    \/ \E name \in WsNames : WorkspaceCall(name)
    \/ WorkspaceProbe
    \/ TimestampList
    \/ TimestampProbe

Spec == Init /\ [][Next]_vars

\* Calls of timestamp() and workspace() on an unchanging filesystem, for
\* every search-path string of length 1..MaxLen.
InitPath ==
    /\ now = 0
    /\ libgap_dir \in {[n \in S |-> 0] : S \in SUBSET LibgapNames}
    /\ pkg_dir \in {[e \in S |-> 0] : S \in SUBSET (Roots \X PkgNames)}
    /\ ws_dir \in {[p \in S |-> 0] : S \in SUBSET {gap_workspace_file("libgap", n) : n \in WsNames}}
    /\ InitEnvDone(Strings(1, MaxLen))
    /\ InitCall

NextPath ==
    \/ \E name \in WsNames : WorkspaceCall(name)
    \/ WorkspaceProbe
    \/ TimestampList
    \/ TimestampProbe

SpecPath == InitPath /\ [][NextPath]_vars

\* The values of GAP_ROOT_PATHS in the environment: unset, "", "b", ";b".
EnvPathSamples == {None, Some(<<>>), Some(<<"b">>), Some(<<";", "b">>)}

\* The values of GAP_ROOT in the environment: unset, "a", "b/".
EnvRootSamples == {None, Some(<<"a">>), Some(<<"b", "/">>)}

\* The interpreter starts: nothing is imported, the environment and the
\* installation directories are arbitrary.
InitEnv ==
    /\ now = 0
    /\ libgap_dir = [n \in LibgapNames |-> 0]
    /\ pkg_dir = [e \in {} |-> 0]
    /\ ws_dir = [p \in {} |-> 0]
    /\ InitCall
    /\ GAP_ROOT_PATHS = None
    /\ environ \in [GAP_ROOT_PATHS : EnvPathSamples, GAP_ROOT : EnvRootSamples]
    /\ gap_exec \in {None} \cup {Some([dir |-> d, file |-> "gap"]) : d \in Roots}
    /\ resources \in [Roots -> SUBSET Resources]
    /\ debug \in BOOLEAN
    /\ pcEnv = "start"
    /\ envRet = NoRet
    /\ fgRet = NoRet

NextEnv ==
    \/ ImportEnv
    \/ CallFindGap
    \/ SetupFindGap

SpecEnv == InitEnv /\ [][NextEnv]_vars

\* ====================================================== the claims
\* ---- notions the claims are stated with
WsPath == gap_workspace_file("libgap", "workspace")

\* The roots named by the search path: its non-empty segments.
NamedRoots == {d \in Roots : GAP_ROOT_PATHS # None /\ Searched(d)}

\* Every entry of the own-support directory and of <d>/pkg for the named
\* roots d, hidden or not.
EntriesAll ==
    {LibgapPath(n) : n \in DOMAIN libgap_dir}
        \cup {PkgPath(e[1], e[2]) : e \in {x \in DOMAIN pkg_dir : x[1] \in NamedRoots}}

\* Those of them whose name does not begin with a dot.
EntriesVisible == {p \in EntriesAll : Head(p.name) # "."}

\* The modification time the filesystem holds for an entry.
MtimeOf(p) == IF p.dir = "libgap" THEN libgap_dir[p.name] ELSE pkg_dir[<<p.root, p.name>>]

\* The freshness timestamp over a set of entries.
Stamp(S) == IF S = {} THEN Inf ELSE Max({MtimeOf(p) : p \in S})

\* The step that ends timestamp(): the probes of lines 68-71.
ProbeStep == pc = "listed" /\ pc' = "idle"

\* The step that ends the try block of workspace().
WsProbeStep == pc = "called" /\ pc' # "called"

\* The workspace file exists and workspace() has read its current mtime.
WsRead == WsPath \in DOMAIN ws_dir /\ workspace_mtime = ws_dir[WsPath]

\* ---- C1
\* C1 as stated: once any entry of the own-support directory or of a
\* searched <d>/pkg has been added or modified after the save, a
\* workspace() check that runs undisturbed reports is_fresh = false.
C1_AnyLaterChangeInvalidates ==
    [][(ProbeStep /\ call.fn = "workspace" /\ quiet /\ changed \in {"unseen", "newer"})
         => (ret'.kind = "return" /\ ret'.value[2] = FALSE)]_vars

\* C1 as amended: once an entry whose name does not begin with a dot has
\* been added or modified with a modification time strictly greater than the
\* snapshot's, every undisturbed workspace() check reports is_fresh = false
\* until the snapshot is saved again (no candidate being removed meanwhile).
C1_NewerVisibleChangeInvalidates ==
    [][(ProbeStep /\ call.fn = "workspace" /\ quiet /\ changed = "newer")
         => (ret'.kind = "return" /\ ret'.value[2] = FALSE)]_vars

\* A check has reported "not fresh" for a snapshot that a later package
\* change made stale.
C1_Witness ==
    /\ pc = "idle"
    /\ changed = "newer"
    /\ WsPath \in DOMAIN ws_dir
    /\ \E e \in DOMAIN pkg_dir : pkg_dir[e] > ws_dir[WsPath]
    /\ ret = Returned("workspace", <<WsPath, FALSE>>, FALSE)

\* ---- C2
\* C2: when the workspace file exists, an undisturbed workspace() returns
\* (path, b) with b true exactly when the file's modification time is >=
\* the freshness timestamp of the current candidates; equality is fresh.
C2_FreshIffNotOlder ==
    [][(ProbeStep /\ call.fn = "workspace" /\ quiet /\ WsRead)
         => (/\ ret'.kind = "return"
             /\ ret'.value = <<WsPath, ws_dir[WsPath] >= Stamp(EntriesVisible)>>)]_vars

\* A snapshot whose modification time equals the freshness timestamp has
\* been reported fresh.
C2_Witness ==
    /\ pc = "idle"
    /\ WsPath \in DOMAIN ws_dir
    /\ EntriesVisible # {}
    /\ ws_dir[WsPath] = Stamp(EntriesVisible)
    /\ ret = Returned("workspace", <<WsPath, TRUE>>, FALSE)

\* ---- C3
\* C3: when no file exists at the resolved path, workspace() ends at its
\* probe with (path, false) and no error, whatever the candidates are.
C3_MissingIsNotFresh ==
    [][(WsProbeStep /\ WsPath \notin DOMAIN ws_dir)
         => (pc' = "idle" /\ ret' = Returned("workspace", <<WsPath, FALSE>>, FALSE))]_vars

\* workspace() has answered (path, false) for a missing file while the
\* candidate set was empty.
C3_Witness ==
    /\ pc = "idle"
    /\ WsPath \notin DOMAIN ws_dir
    /\ EntriesAll = {}
    /\ ret = Returned("workspace", <<WsPath, FALSE>>, FALSE)

\* ---- C4
\* C4 as stated: an undisturbed timestamp() returns the maximum
\* modification time over every immediate entry of the own-support
\* directory and of the searched <d>/pkg; exactly when there is no such entry
\* it prints the diagnostic and returns infinity.
C4_MaxOverAllEntries ==
    [][(ProbeStep /\ call.fn = "timestamp" /\ quiet)
         => ret' = Returned("timestamp", Stamp(EntriesAll), EntriesAll = {})]_vars

\* C4 as amended: the same over the entries whose name does not begin with
\* a dot (the ones the pattern '*' matches); infinity exceeds every
\* workspace modification time, so a workspace() check then reports not
\* fresh.
C4_MaxOverVisibleEntries ==
    [][/\ (ProbeStep /\ call.fn = "timestamp" /\ quiet)
          => ret' = Returned("timestamp", Stamp(EntriesVisible), EntriesVisible = {})
       /\ (ProbeStep /\ call.fn = "workspace" /\ quiet /\ EntriesVisible = {})
          => ret' = Returned("workspace", <<WsPath, FALSE>>, TRUE)
       /\ \A p \in DOMAIN ws_dir : ws_dir[p] < Inf]_vars

\* timestamp() has printed the diagnostic and returned infinity.
C4_Witness ==
    /\ pc = "idle"
    /\ EntriesVisible = {}
    /\ ret = Returned("timestamp", Inf, TRUE)

\* ---- C5
\* The outcomes of find_gap() the state records: the last direct call and
\* the call made by the import.
LocatorOutcomes ==
    {r \in {fgRet, envRet} : r.kind # "none" /\ r.find_gap_calls = 1}

NoCandidate == gap_exec = None /\ environ.GAP_ROOT = None

\* C5 as stated: with gap not on the search path and GAP_ROOT unset,
\* find_gap() fails with a ConfigurationError naming both remedies.
C5_RaisesConfigurationError ==
    NoCandidate =>
        \A r \in LocatorOutcomes :
            r.kind = "raise" /\ r.type = "ConfigurationError"
                /\ r.msg.remedies = {"PATH", "GAP_ROOT"}

\* C5 as amended: it fails with a ValueError naming both remedies.
C5_RaisesValueError ==
    NoCandidate =>
        \A r \in LocatorOutcomes :
            r.kind = "raise" /\ r.type = "ValueError"
                /\ r.msg.remedies = {"PATH", "GAP_ROOT"}

\* Both variants of find_gap() have been seen to fail that way: the one of
\* env.py during the import, the one of setup.py in a direct call.
C5_Witness ==
    /\ NoCandidate
    /\ pcEnv = "failed"
    /\ envRet.type = "ValueError"
    /\ fgRet.kind = "raise"
    /\ fgRet.fn = "setup.find_gap"

\* ---- C6
\* The candidate root of find_gap().
Candidate ==
    IF gap_exec # None THEN gap_exec[1].dir
    ELSE IF environ.GAP_ROOT = Some(<<"a">>) THEN <<"a">> ELSE <<"b">>

\* C6: find_gap() of env.py never returns a root lacking lib/init.g or pkg;
\* for such a candidate it fails with a ConfigurationError naming the
\* missing resource and where it was expected.
C6_NeverReturnsInvalidRoot ==
    \A r \in {x \in LocatorOutcomes : x.fn \in {"find_gap", "import"}} :
        /\ r.kind = "return" => {"lib/init.g", "pkg"} \subseteq resources[r.value]
        /\ (~NoCandidate /\ ~({"lib/init.g", "pkg"} \subseteq resources[Candidate]))
             => /\ r.kind = "raise"
                /\ r.type = "ConfigurationError"
                /\ r.msg.missing \in {"lib/init.g", "pkg"} \ resources[Candidate]
                /\ r.msg.expected[1] = Candidate

\* ---- C7
\* C7: a candidate vanishing between the listing and the probe never makes
\* timestamp() or workspace() fail other than with FilesystemRaceError.
C7_RaceIsTolerated == ret.kind = "raise" => ret.exc = "FilesystemRaceError"

\* ---- C8
\* C8: of two successive timestamp() calls between which the filesystem
\* saw only touches of own-support files, the second returns at least what
\* the first returned.
C8_MonotoneUnderTouch ==
    [][(ProbeStep /\ call.fn = "timestamp" /\ ret.fn = "timestamp" /\ ret.kind = "return"
          /\ onlyTouch)
         => (ret'.kind = "return" /\ ret'.value >= ret.value)]_vars

\* A second timestamp() call is under way after a touch raised the
\* maximum above what the first call returned.
C8_Witness ==
    /\ pc = "listed"
    /\ call.fn = "timestamp"
    /\ onlyTouch
    /\ ret.fn = "timestamp"
    /\ ret.kind = "return"
    /\ EntriesVisible # {}
    /\ Stamp(EntriesVisible) > ret.value

\* ---- C9
\* The search-path string of the program.
PathString == GAP_ROOT_PATHS[1]

\* The positions where a non-empty segment begins.
SegmentStarts ==
    {i \in 1..Len(PathString) :
        PathString[i] # ";" /\ (i = 1 \/ PathString[i - 1] = ";")}

RECURSIVE Flatten(_)
Flatten(ss) == IF ss = <<>> THEN <<>> ELSE Head(ss) \o Flatten(Tail(ss))

\* C9: the listing of timestamp() looks up <d>/pkg for exactly the
\* non-empty segments d of the search path, in order: one lookup per
\* segment start, none empty, none holding a delimiter, together spelling
\* the path without its delimiters; and every listed package lies under a
\* looked-up root.
C9_LookupsAreNonEmptySegments ==
    pc = "listed" =>
        /\ Len(lookups) = Cardinality(SegmentStarts)
        /\ \A i \in 1..Len(lookups) :
              lookups[i] # <<>> /\ \A j \in 1..Len(lookups[i]) : lookups[i][j] # ";"
        /\ Flatten(lookups) = SelectSeq(PathString, LAMBDA c : c # ";")
        /\ \A i \in 1..Len(files) :
              files[i].dir = "pkg" => files[i].root \in Range(lookups)

\* The path ";;a", with a leading and a doubled delimiter, has been listed
\* with the single lookup of a.
C9_Witness ==
    /\ pc = "listed"
    /\ PathString = <<";", ";", "a">>
    /\ lookups = <<<<"a">>>>
    /\ \E i \in 1..Len(files) : files[i].dir = "pkg"

\* ---- C10
\* C10: whenever GAP_ROOT_PATHS is set in the environment, the import takes
\* the search path from it and does not call find_gap().
C10_SetVariableBypassesLocator ==
    (pcEnv # "start" /\ environ.GAP_ROOT_PATHS # None)
        => /\ envRet.kind = "return"
           /\ envRet.find_gap_calls = 0
           /\ GAP_ROOT_PATHS = environ.GAP_ROOT_PATHS

====
